---- MODULE Spec2Model ----
(***************************************************************************)
(* Model of the Belch proxy (src/src/main.rs): the accept loop, the        *)
(* per-connection handler task (CONNECT tunnel and plain-HTTP forward),    *)
(* the shared App { logs, selected } behind its Mutex, and the terminal    *)
(* loop that reads it.                                                     *)
(*                                                                         *)
(* Text is a sequence of symbols.  A symbol is either one of the           *)
(* characters the code splits on (" ", "\t", "\r", "\n", ":") or an atom:  *)
(* a maximal run of other characters ("GET", "h1", "/x", "HTTP/1.1").      *)
(* A byte that is not valid UTF-8 is the symbol "BAD".  Every operation    *)
(* of the code on text (lines, split_whitespace, splitn, split, parse,     *)
(* to_lowercase, starts_with, replace, from_utf8_lossy) is exact on this   *)
(* representation.                                                         *)
(*                                                                         *)
(* Not modelled: the 8 KiB size of the read buffers (every frame and chunk *)
(* here fits in one read), a failure of bind(), and the 'q' key, which     *)
(* ends the process.                                                       *)
(***************************************************************************)
EXTENDS Integers, Sequences, FiniteSets, TLC

\* ------------------------------------------------------------- bounds

\* Calls of accept() in a run; connection h is the h-th accepted.
MaxConns == 2

\* Chunks the peers send in a run, all connections together, after the
\* clients' first frames.
MaxChunks == 2

\* Chunks the two peers of the one connection of TunnelSpec send in a run.
TunnelChunks == 4

\* ------------------------------------------------------------- text

CR == "\r"
LF == "\n"
SP == " "
COLON == ":"

Whitespace == {" ", "\t", "\r", "\n"}

\* F of the value of x, with x evaluated once.
Value(F(_), x) == CHOOSE r \in {F(v) : v \in {x}} : TRUE

\* str::split(c): the pieces between the occurrences of c, empty ones kept.
RECURSIVE SplitAt(_, _, _)
SplitAt(s, c, cur) ==
    IF s = <<>> THEN <<cur>>
    ELSE IF Head(s) = c THEN <<cur>> \o SplitAt(Tail(s), c, <<>>)
    ELSE SplitAt(Tail(s), c, Append(cur, Head(s)))

Split(s, c) == Value(LAMBDA v : SplitAt(v, c, <<>>), s)

\* String::from_utf8_lossy: an invalid byte becomes U+FFFD.
FromUtf8Lossy(bytes) ==
    [i \in 1..Len(bytes) |-> IF bytes[i] = "BAD" THEN "U+FFFD" ELSE bytes[i]]

\* One line of str::lines: a "\r" right before the "\n" goes with it.
StripCR(l) ==
    IF l # <<>> /\ l[Len(l)] = CR THEN SubSeq(l, 1, Len(l) - 1) ELSE l

\* str::lines: split at "\n" or "\r\n"; no empty line after a final "\n".
LinesOf(raw) ==
    LET n == IF raw[Len(raw)] = <<>> THEN Len(raw) - 1 ELSE Len(raw)
    IN  [i \in 1..n |-> IF i < Len(raw) THEN StripCR(raw[i]) ELSE raw[i]]

Lines(s) == Value(LinesOf, Split(s, LF))

\* lines.next().unwrap_or_default()
FirstLineOf(ls) == IF ls = <<>> THEN <<>> ELSE ls[1]

FirstLine(s) == Value(FirstLineOf, Lines(s))

\* str::split_whitespace: the maximal runs of non-whitespace.
RECURSIVE Tokens(_, _)
Tokens(s, cur) ==
    IF s = <<>> THEN (IF cur = <<>> THEN <<>> ELSE <<cur>>)
    ELSE IF Head(s) \in Whitespace
         THEN (IF cur = <<>> THEN <<>> ELSE <<cur>>) \o Tokens(Tail(s), <<>>)
         ELSE Tokens(Tail(s), Append(cur, Head(s)))

SplitWhitespace(s) == Value(LAMBDA v : Tokens(v, <<>>), s)

\* char::to_lowercase on an atom.
LowerSym(a) ==
    CASE a \in {"Host", "HOST", "host"} -> "host"
      [] a \in {"CONNECT", "Connect", "connect"} -> "connect"
      [] a = "GET" -> "get"
      [] OTHER -> a

ToLowercase(s) == [i \in 1..Len(s) |-> LowerSym(s[i])]

StartsWith(s, p) == Len(s) >= Len(p) /\ SubSeq(s, 1, Len(p)) = p

\* Whether sub occurs in s as a contiguous run.
Contains(s, sub) ==
    \E i \in 0..(Len(s) - Len(sub)) : SubSeq(s, i + 1, i + Len(sub)) = sub

\* str::replace("\r\n", "\n"): one pass, left to right, over what follows
\* index i; what was replaced is not scanned again.
RECURSIVE ReplaceFrom(_, _)
ReplaceFrom(s, i) ==
    IF i > Len(s) THEN <<>>
    ELSE IF i < Len(s) /\ s[i] = CR /\ s[i + 1] = LF
         THEN <<LF>> \o ReplaceFrom(s, i + 2)
         ELSE <<s[i]>> \o ReplaceFrom(s, i + 1)

\* The same, repeated until no "\r\n" is left.
RECURSIVE ReplaceCRLFRescan(_)
ReplaceCRLFRescan(s) ==
    LET once == Value(LAMBDA v : ReplaceFrom(v, 1), s)
    IN  IF once = s THEN s ELSE ReplaceCRLFRescan(once)

ReplaceCRLF(s) == Value(LAMBDA v : ReplaceFrom(v, 1), s)

\* ------------------------------------------------------------- the request

\* The acknowledgement of a CONNECT (line 88).
Ack == <<"HTTP/1.1", SP, "200", SP, "Connection", SP, "Established", CR, LF, CR, LF>>

\* parts.next().unwrap_or("") on the first line (lines 78-81).
StartLine(header) == FirstLine(header)

\* The n-th of parts, or what unwrap_or gives.
NthOr(parts, n, dflt) == IF Len(parts) >= n THEN parts[n] ELSE dflt

Method(header) == Value(LAMBDA parts : NthOr(parts, 1, <<>>), SplitWhitespace(StartLine(header)))

Target(header) == Value(LAMBDA parts : NthOr(parts, 2, <<>>), SplitWhitespace(StartLine(header)))

\* method.eq_ignore_ascii_case("CONNECT") (line 86).
IsConnectExact(header) == Method(header) = <<"CONNECT">>

IsConnect(header) == ToLowercase(Method(header)) = <<"connect">>

\* parts.get(0).copied().unwrap_or("") (line 133).
Meth(header) == Method(header)

\* parts.get(1).copied().unwrap_or("/") (line 134).
Path(header) ==
    Value(LAMBDA parts : NthOr(parts, 2, <<"/">>), SplitWhitespace(FirstLine(header)))

\* The lines whose lowercase starts with "host:" (line 136).
IsHostLine(l) == StartsWith(ToLowercase(l), <<"host", COLON>>)

HostLines(header) == Value(LAMBDA ls : SelectSeq(ls, IsHostLine), Lines(header))

\* l.splitn(2, ' ').nth(1): what follows the first space, if any (line 137).
HasSpace(l) == \E i \in 1..Len(l) : l[i] = SP

AfterFirstSpace(l) ==
    LET i == CHOOSE k \in 1..Len(l) : l[k] = SP /\ \A j \in 1..(k - 1) : l[j] # SP
    IN  SubSeq(l, i + 1, Len(l))

\* find(..).and_then(..).unwrap_or("127.0.0.1") (lines 135-138).
HostHdrOrLocalhost(found) ==
    IF found # <<>> /\ HasSpace(found[1]) THEN AfterFirstSpace(found[1])
    ELSE <<"localhost">>

HostHdrOf(found) ==
    IF found # <<>> /\ HasSpace(found[1]) THEN AfterFirstSpace(found[1])
    ELSE <<"127.0.0.1">>

HostHdr(header) == Value(HostHdrOf, HostLines(header))

\* hp.next().unwrap_or("127.0.0.1"): split always yields a first piece (line 140).
Host(header) == Value(LAMBDA hp : hp[1], Split(HostHdr(header), COLON))

\* str::parse::<u16>: decimal digits only, at most 65535.
PortValue ==
    [a \in {"80", "443", "8080"} |-> CASE a = "80" -> 80 [] a = "443" -> 443 [] a = "8080" -> 8080]

ParsesAsPort(piece) == Len(piece) = 1 /\ piece[1] \in DOMAIN PortValue

\* hp.next().and_then(|x| x.parse().ok()).unwrap_or(80) (line 141).
PortOf(hp) == IF Len(hp) >= 2 /\ ParsesAsPort(hp[2]) THEN PortValue[hp[2][1]] ELSE 80

Port(header) == Value(PortOf, Split(HostHdr(header), COLON))

\* format!("{} {} HTTP/1.1\r\nHost: {}\r\nConnection: close\r\n\r\n", ..) (line 142).
ForwardEchoesFrame(header) == header

Forward(header) ==
    Meth(header) \o <<SP>> \o Path(header) \o <<SP, "HTTP/1.1", CR, LF>>
    \o <<"Host", COLON, SP>> \o Host(header) \o <<CR, LF>>
    \o <<"Connection", COLON, SP, "close", CR, LF, CR, LF>>

\* format!("CONNECT {}", target) (line 92).
ConnectLabel(header) == <<"CONNECT", SP>> \o Target(header)

\* format!("Tunnel {}", target) (line 120).
TunnelLabel(header) == <<"Tunnel", SP>> \o Target(header)

\* format!("{} {} [Host: {}]", meth, path, host) (line 151).
ForwardLabel(header) ==
    Meth(header) \o <<SP>> \o Path(header) \o <<SP, "[Host", COLON, SP>>
    \o Host(header) \o <<"]">>

\* TcpStream::connect(target): a "host:port" string resolves only with a port.
ResolvableOf(hp) == Len(hp) = 2 /\ Len(hp[1]) = 1 /\ ParsesAsPort(hp[2])

TunnelResolvable(header) == Value(ResolvableOf, Split(Target(header), COLON))

\* TcpStream::connect((host, port)): the host must be one name or address.
ForwardResolvable(header) == Len(Host(header)) = 1

\* ------------------------------------------------------------- what peers send

\* First frames a client may send.
F_Connect == <<"CONNECT", SP, "h1", COLON, "443", SP, "HTTP/1.1", CR, LF, CR, LF>>
F_ConnectLower == <<"connect", SP, "h1", COLON, "443", SP, "HTTP/1.1", CR, LF, CR, LF>>
F_Get ==
    <<"GET", SP, "/x", SP, "HTTP/1.1", CR, LF, "Host", COLON, SP, "h1", CR, LF, CR, LF>>

Frames == {F_Connect, F_ConnectLower, F_Get}

\* First frames of plain-HTTP requests: the request line with an origin-form
\* target, with an absolute URI, or cut short, and the Host header in the
\* forms a client may write it, alone or among other headers and a body.
RequestLine(target) == <<"GET", SP>> \o target \o <<SP, "HTTP/1.1", CR, LF>>

OriginTarget == <<"/x">>
AbsTargetPort == <<"http", COLON, "//h1", COLON, "8080/x">>
AbsTargetNoPort == <<"http", COLON, "//h1/x">>

F_HostPort == RequestLine(OriginTarget) \o <<"Host", COLON, SP, "h1", COLON, "8080", CR, LF, CR, LF>>
F_HostUpper == RequestLine(OriginTarget) \o <<"HOST", COLON, SP, "h1", COLON, "443", CR, LF, CR, LF>>
F_HostNoSpace == RequestLine(OriginTarget) \o <<"Host", COLON, "h1", COLON, "8080", CR, LF, CR, LF>>
F_TwoHosts ==
    <<"POST", SP, "/x", SP, "HTTP/1.1", CR, LF, "Accept", COLON, SP, "a", CR, LF,
      "Host", COLON, SP, "h1", CR, LF, "host", COLON, SP, "h2", COLON, "8080", CR, LF,
      "Connection", COLON, SP, "keep-alive", CR, LF, CR, LF, "body">>
F_NoHost == RequestLine(OriginTarget) \o <<CR, LF>>
F_NoHostOtherHeader == RequestLine(OriginTarget) \o <<"Accept", COLON, SP, "a", CR, LF, CR, LF>>
F_AbsPort == RequestLine(AbsTargetPort) \o <<CR, LF>>
F_AbsNoPort == RequestLine(AbsTargetNoPort) \o <<CR, LF>>
F_AbsPortHost == RequestLine(AbsTargetPort) \o <<"Host", COLON, SP, "h1", COLON, "8080", CR, LF, CR, LF>>
F_MethodOnly == <<"GET", CR, LF, CR, LF>>
F_BlankLine == <<CR, LF, CR, LF>>
F_BlankLineHost == <<CR, LF, "Host", COLON, SP, "h1", CR, LF, CR, LF>>

RequestFrames ==
    {F_Get, F_HostPort, F_HostUpper, F_HostNoSpace, F_TwoHosts, F_NoHost,
     F_NoHostOtherHeader, F_AbsPort, F_AbsNoPort, F_AbsPortHost, F_MethodOnly,
     F_BlankLine, F_BlankLineHost}

\* The chunk a client sends as the k-th chunk of the run.
ClientData == <<"c1", "c2", "c3", "c4", "c5", "c6">>

ClientChunk(k) == <<ClientData[k]>>

\* Chunks an upstream may send: a byte that is not UTF-8, a lone "\r", a
\* "\r\n" and text.
UpChunks == {<<"BAD", CR, CR, LF, "a">>}

\* ------------------------------------------------------------- state

Conns == 1..MaxConns

VARIABLES
    lst,        \* the accept loop: "accepting", or "panicked" (accept().unwrap())
    nconn,      \* connections accepted so far; connection h is handler task h
    pc,         \* pc[h]: where handler h stands
    header,     \* header[h]: the first frame, decoded (line 76)
    client,     \* client[h]: the client's end, "none" | "open" | "closed" (or failed)
    clientIn,   \* bytes the client sent that the handler has not read
    clientOut,  \* bytes the client received
    framed,     \* framed[h]: the client has sent its first frame
    up,         \* up[h]: the upstream connection, "none" | "failed" | "open" | "closed"
    upAddr,     \* the address handed to TcpStream::connect
    upIn,       \* bytes the upstream sent that the handler has not read
    upOut,      \* bytes the upstream received
    sent,       \* chunks sent so far in the run
    cbuf,       \* cbuf[..cm] / creq of the relay loop (lines 104-108)
    ubuf,       \* ubuf[..um] / uresp of the relay loop (lines 111-115)
    respBuf,    \* resp_buf of the forward strategy (line 145)
    logs,       \* App.logs; each record also carries the connection that pushed it
    selected,   \* App.selected
    mutex,      \* holder of the Mutex<App>: 0 when free, else a handler
    ui          \* run_app: "draw" | "poll"

vars == <<lst, nconn, pc, header, client, clientIn, clientOut, framed, up, upAddr,
          upIn, upOut, sent, cbuf, ubuf, respBuf, logs, selected, mutex, ui>>

clientVars == <<client, clientIn, clientOut, framed>>
upVars == <<up, upAddr, upIn, upOut>>
bufVars == <<cbuf, ubuf, respBuf>>
appVars == <<logs, selected, mutex>>

\* Positions at which the task is suspended in an .await.
AwaitPcs == {"read", "ack", "connect", "t_read_c", "t_write_u", "t_read_u", "t_write_c",
             "f_connect", "f_write", "f_read", "f_relay"}

\* Positions at which the task is about to lock the Mutex and push a record.
LogPcs == {"log_connect", "t_log", "f_log"}

\* No address handed to TcpStream::connect yet.
NoAddr == [host |-> <<>>, port |-> 0]

\* App::new (line 42), a bound listener (line 64), no connection yet.
Init ==
    /\ lst = "accepting"
    /\ nconn = 0
    /\ pc = [h \in Conns |-> "idle"]
    /\ header = [h \in Conns |-> <<>>]
    /\ client = [h \in Conns |-> "none"]
    /\ clientIn = [h \in Conns |-> <<>>]
    /\ clientOut = [h \in Conns |-> <<>>]
    /\ framed = [h \in Conns |-> FALSE]
    /\ up = [h \in Conns |-> "none"]
    /\ upAddr = [h \in Conns |-> NoAddr]
    /\ upIn = [h \in Conns |-> <<>>]
    /\ upOut = [h \in Conns |-> <<>>]
    /\ sent = 0
    /\ cbuf = [h \in Conns |-> <<>>]
    /\ ubuf = [h \in Conns |-> <<>>]
    /\ respBuf = [h \in Conns |-> <<>>]
    /\ logs = <<>>
    /\ selected = 0
    /\ mutex = 0
    /\ ui = "draw"

\* ------------------------------------------------------------- the peers

\* The sockets of connection h exist while its handler task does: the task
\* owns them, and a peer has nothing to send to or close once it is over.
Alive(h) == pc[h] \notin {"idle", "done", "cancelled"}

\* A client sends its first frame.
ClientFrame(h) ==
    /\ Alive(h)
    /\ client[h] = "open"
    /\ ~framed[h]
    /\ \E data \in Frames : clientIn' = [clientIn EXCEPT ![h] = @ \o data]
    /\ framed' = [framed EXCEPT ![h] = TRUE]
    /\ UNCHANGED <<lst, nconn, pc, header, client, clientOut, upVars, sent, bufVars,
                   appVars, ui>>

\* A client sends a chunk after its first frame, the run's max-th at most.
ClientSendWithin(h, max) ==
    /\ Alive(h)
    /\ client[h] = "open"
    /\ framed[h]
    /\ sent < max
    /\ clientIn' = [clientIn EXCEPT ![h] = @ \o ClientChunk(sent + 1)]
    /\ sent' = sent + 1
    /\ UNCHANGED <<lst, nconn, pc, header, client, clientOut, framed, upVars, bufVars,
                   appVars, ui>>

ClientSend(h) == ClientSendWithin(h, MaxChunks)

\* A client closes its end, or its connection breaks.
ClientClose(h) ==
    /\ Alive(h)
    /\ client[h] = "open"
    /\ client' = [client EXCEPT ![h] = "closed"]
    /\ UNCHANGED <<lst, nconn, pc, header, clientIn, clientOut, framed, upVars, sent,
                   bufVars, appVars, ui>>

\* An upstream sends a chunk, the run's max-th at most.
UpstreamSendWithin(h, max) ==
    /\ Alive(h)
    /\ up[h] = "open"
    /\ sent < max
    /\ \E data \in UpChunks : upIn' = [upIn EXCEPT ![h] = @ \o data]
    /\ sent' = sent + 1
    /\ UNCHANGED <<lst, nconn, pc, header, clientVars, up, upAddr, upOut, bufVars,
                   appVars, ui>>

UpstreamSend(h) == UpstreamSendWithin(h, MaxChunks)

\* An upstream closes its end, or its connection breaks.
UpstreamClose(h) ==
    /\ Alive(h)
    /\ up[h] = "open"
    /\ up' = [up EXCEPT ![h] = "closed"]
    /\ UNCHANGED <<lst, nconn, pc, header, clientVars, upAddr, upIn, upOut, sent,
                   bufVars, appVars, ui>>

\* ------------------------------------------------------------- the listener

\* listener.accept().await succeeds; tokio::spawn of the handler (lines 67-69).
Accept ==
    /\ lst = "accepting"
    /\ nconn < MaxConns
    /\ nconn' = nconn + 1
    /\ pc' = [pc EXCEPT ![nconn + 1] = "read"]
    /\ client' = [client EXCEPT ![nconn + 1] = "open"]
    /\ UNCHANGED <<lst, header, clientIn, clientOut, framed, upVars, sent, bufVars,
                   appVars, ui>>

\* listener.accept().await fails: unwrap() panics, the accept loop is gone and
\* the runtime is dropped (line 67).
AcceptFail ==
    /\ lst = "accepting"
    /\ nconn < MaxConns
    /\ lst' = "panicked"
    /\ UNCHANGED <<nconn, pc, header, clientVars, upVars, sent, bufVars, appVars, ui>>

\* ------------------------------------------------------------- the handler

\* The address TcpStream::connect(target) resolves "host:port" to (line 98).
TunnelAddrOf(hp) ==
    IF ResolvableOf(hp) THEN [host |-> hp[1], port |-> PortValue[hp[2][1]]] ELSE NoAddr

TunnelAddr(hd) == Value(TunnelAddrOf, Split(Target(hd), COLON))

\* The address of TcpStream::connect((host, port)) (line 143).
ForwardAddr(hd) == [host |-> Host(hd), port |-> Port(hd)]

\* write_all to a peer: the bytes arrive while the peer's end is open.
Deliver(out, peer, data) == IF peer = "open" THEN out \o data ELSE out

\* VecDeque::push_back (lines 91, 119, 150).
PushBackOverLast(l, r) == IF l = <<>> THEN <<r>> ELSE [l EXCEPT ![Len(l)] = r]

PushFront(l, r) == <<r>> \o l

PushBack(l, r) == Append(l, r)

\* The HttpLog pushed at each of the three places (lines 91-95, 119-123, 150-154).
ConnectRecord(h) ==
    [url |-> ConnectLabel(header[h]), request |-> StartLine(header[h]),
     response |-> <<"[Tunnel", SP, "established]">>, conn |-> h]

TunnelRecordSwapped(h) ==
    [url |-> TunnelLabel(header[h]), request |-> FromUtf8Lossy(ubuf[h]),
     response |-> FromUtf8Lossy(cbuf[h]), conn |-> h]

TunnelRecord(h) ==
    [url |-> TunnelLabel(header[h]), request |-> FromUtf8Lossy(cbuf[h]),
     response |-> FromUtf8Lossy(ubuf[h]), conn |-> h]

ForwardRecord(h) ==
    [url |-> ForwardLabel(header[h]), request |-> Forward(header[h]),
     response |-> ReplaceCRLF(FromUtf8Lossy(respBuf[h])), conn |-> h]

\* One step of handler h to position p, leaving cin unread from the client,
\* the upstream in state u and uin unread from it.  A task that returns or is
\* dropped drops its sockets, and what was unread is discarded (the async
\* block of lines 69-159); client and up keep what the peers' ends were then.
Ended(p) == p \in {"done", "cancelled"}

Step(h, p, cin, u, uin) ==
    /\ pc' = [pc EXCEPT ![h] = p]
    /\ client' = client
    /\ clientIn' = [clientIn EXCEPT ![h] = IF Ended(p) THEN <<>> ELSE cin]
    /\ up' = [up EXCEPT ![h] = u]
    /\ upIn' = [upIn EXCEPT ![h] = IF Ended(p) THEN <<>> ELSE uin]

\* A step that touches neither connection.
Goto(h, p) == Step(h, p, clientIn[h], up[h], upIn[h])

\* `_ => return` of the first read (line 74).
ReadFailedProceeds == "f_connect"

ReadFailedNext == "done"

\* The branch on the method (line 86).
Strategy(hd) == IF IsConnect(hd) THEN "ack" ELSE "f_connect"

\* client.read(&mut buf).await (lines 72-81): the frame, or Ok(0) / Err once
\* the client is gone; suspended while there is neither.
H_Read(h) ==
    /\ pc[h] = "read"
    /\ IF clientIn[h] # <<>>
       THEN /\ header' = [header EXCEPT ![h] = FromUtf8Lossy(clientIn[h])]
            /\ Step(h, Strategy(header'[h]), <<>>, up[h], upIn[h])
       ELSE /\ client[h] = "closed"
            /\ Goto(h, ReadFailedNext)
            /\ UNCHANGED header
    /\ UNCHANGED <<lst, nconn, clientOut, framed, upAddr, upOut, sent, bufVars, appVars, ui>>

\* let _ = client_w.write_all(b"HTTP/1.1 200 Connection Established\r\n\r\n") (line 88).
H_Ack(h) ==
    /\ pc[h] = "ack"
    /\ clientOut' = [clientOut EXCEPT ![h] = Deliver(@, client[h], Ack)]
    /\ Goto(h, "log_connect")
    /\ UNCHANGED <<lst, nconn, header, framed, upAddr, upOut, sent, bufVars, appVars, ui>>

\* app.lock().unwrap() (lines 90, 118, 149).
H_Lock(h) ==
    /\ pc[h] \in LogPcs
    /\ mutex = 0
    /\ mutex' = h
    /\ UNCHANGED <<lst, nconn, pc, header, clientVars, upVars, sent, bufVars, logs,
                   selected, ui>>

\* guard.logs.push_back(..) and the drop of the guard (lines 91-96, 119-124, 150-155).
H_Push(h) ==
    /\ pc[h] \in LogPcs
    /\ mutex = h
    /\ logs' = PushBack(logs, CASE pc[h] = "log_connect" -> ConnectRecord(h)
                                [] pc[h] = "t_log" -> TunnelRecord(h)
                                [] pc[h] = "f_log" -> ForwardRecord(h))
    /\ mutex' = 0
    /\ Goto(h, CASE pc[h] = "log_connect" -> "connect"
                 [] pc[h] = "t_log" -> "t_read_c"
                 [] pc[h] = "f_log" -> "f_relay")
    /\ UNCHANGED <<lst, nconn, header, clientOut, framed, upAddr, upOut, sent, bufVars,
                   selected, ui>>

\* if let Ok(upstream) = TcpStream::connect(target).await (line 98).
TunnelConnectNext(ok) == IF ok THEN "t_read_c" ELSE "done"

H_Connect(h) ==
    /\ pc[h] = "connect"
    /\ \E ok \in (IF TunnelResolvable(header[h]) THEN {TRUE, FALSE} ELSE {FALSE}) :
           Step(h, TunnelConnectNext(ok), clientIn[h],
                IF ok THEN "open" ELSE "failed", upIn[h])
    /\ upAddr' = [upAddr EXCEPT ![h] = TunnelAddr(header[h])]
    /\ UNCHANGED <<lst, nconn, header, clientOut, framed, upOut, sent, bufVars, appVars, ui>>

\* client_r.read(&mut cbuf).await (lines 104-108).
H_TunnelReadClient(h) ==
    /\ pc[h] = "t_read_c"
    /\ IF clientIn[h] # <<>>
       THEN /\ cbuf' = [cbuf EXCEPT ![h] = clientIn[h]]
            /\ Step(h, "t_write_u", <<>>, up[h], upIn[h])
       ELSE /\ client[h] = "closed"
            /\ Goto(h, "done")
            /\ UNCHANGED cbuf
    /\ UNCHANGED <<lst, nconn, header, clientOut, framed, upAddr, upOut, sent, ubuf,
                   respBuf, appVars, ui>>

\* if up_w.write_all(&cbuf[..cm]).await.is_err() { break; } (line 109): a write
\* to an upstream that is gone is lost, and may or may not report the error.
H_TunnelWriteUp(h) ==
    /\ pc[h] = "t_write_u"
    /\ upOut' = [upOut EXCEPT ![h] = Deliver(@, up[h], cbuf[h])]
    /\ \E err \in (IF up[h] = "open" THEN {FALSE} ELSE {TRUE, FALSE}) :
           Goto(h, IF err THEN "done" ELSE "t_read_u")
    /\ UNCHANGED <<lst, nconn, header, clientOut, framed, upAddr, sent, bufVars, appVars, ui>>

\* up_r.read(&mut ubuf).await (lines 111-115).
H_TunnelReadUp(h) ==
    /\ pc[h] = "t_read_u"
    /\ IF upIn[h] # <<>>
       THEN /\ ubuf' = [ubuf EXCEPT ![h] = upIn[h]]
            /\ Step(h, "t_write_c", clientIn[h], up[h], <<>>)
       ELSE /\ up[h] = "closed"
            /\ Goto(h, "done")
            /\ UNCHANGED ubuf
    /\ UNCHANGED <<lst, nconn, header, clientOut, framed, upAddr, upOut, sent, cbuf,
                   respBuf, appVars, ui>>

\* let _ = client_w.write_all(&ubuf[..um]).await (line 116).
H_TunnelWriteClient(h) ==
    /\ pc[h] = "t_write_c"
    /\ clientOut' = [clientOut EXCEPT ![h] = Deliver(@, client[h], ubuf[h])]
    /\ Goto(h, "t_log")
    /\ UNCHANGED <<lst, nconn, header, framed, upAddr, upOut, sent, bufVars, appVars, ui>>

\* if let Ok(mut upstream) = TcpStream::connect((host, port)).await (line 143).
ForwardConnectLogsAnyway(ok) == IF ok THEN "f_write" ELSE "f_log"

ForwardConnectNext(ok) == IF ok THEN "f_write" ELSE "done"

H_ForwardConnect(h) ==
    /\ pc[h] = "f_connect"
    /\ \E ok \in (IF ForwardResolvable(header[h]) THEN {TRUE, FALSE} ELSE {FALSE}) :
           Step(h, ForwardConnectNext(ok), clientIn[h],
                IF ok THEN "open" ELSE "failed", upIn[h])
    /\ upAddr' = [upAddr EXCEPT ![h] = ForwardAddr(header[h])]
    /\ UNCHANGED <<lst, nconn, header, clientOut, framed, upOut, sent, bufVars, appVars, ui>>

\* let _ = upstream.write_all(forward.as_bytes()).await (line 144).
H_ForwardWrite(h) ==
    /\ pc[h] = "f_write"
    /\ upOut' = [upOut EXCEPT ![h] = Deliver(@, up[h], Forward(header[h]))]
    /\ Goto(h, "f_read")
    /\ UNCHANGED <<lst, nconn, header, clientOut, framed, upAddr, sent, bufVars, appVars, ui>>

\* let _ = upstream.read_to_end(&mut resp_buf).await (line 146): returns once
\* the upstream has closed or failed, with what arrived until then.
H_ForwardRead(h) ==
    /\ pc[h] = "f_read"
    /\ up[h] = "closed"
    /\ respBuf' = [respBuf EXCEPT ![h] = upIn[h]]
    /\ Step(h, "f_log", clientIn[h], up[h], <<>>)
    /\ UNCHANGED <<lst, nconn, header, clientOut, framed, upAddr, upOut, sent, cbuf, ubuf,
                   appVars, ui>>

\* let _ = client_w.write_all(&resp_buf).await (line 156), and the end of the task.
H_ForwardRelay(h) ==
    /\ pc[h] = "f_relay"
    /\ clientOut' = [clientOut EXCEPT ![h] = Deliver(@, client[h], respBuf[h])]
    /\ Goto(h, "done")
    /\ UNCHANGED <<lst, nconn, header, framed, upAddr, upOut, sent, bufVars, appVars, ui>>

\* A dropped runtime drops a task that is suspended in an .await.
Cancel(h) ==
    /\ lst = "panicked"
    /\ pc[h] \in AwaitPcs
    /\ Goto(h, "cancelled")
    /\ UNCHANGED <<lst, nconn, header, clientOut, framed, upAddr, upOut, sent, bufVars,
                   appVars, ui>>

Handler(h) ==
    \/ H_Read(h)
    \/ H_Ack(h)
    \/ H_Lock(h)
    \/ H_Push(h)
    \/ H_Connect(h)
    \/ H_TunnelReadClient(h)
    \/ H_TunnelWriteUp(h)
    \/ H_TunnelReadUp(h)
    \/ H_TunnelWriteClient(h)
    \/ H_ForwardConnect(h)
    \/ H_ForwardWrite(h)
    \/ H_ForwardRead(h)
    \/ H_ForwardRelay(h)

\* ------------------------------------------------------------- the terminal loop

\* run_app while it loops: draw, then poll for a key.  KeyCode::Char('q')
\* (line 242) ends the process and with it everything described here; a run
\* that ends so is a run of this model cut short.

\* App::next (lines 44-48).
nextWraps(sel, len) == IF sel + 1 < len THEN sel + 1 ELSE 0

nextPastEnd(sel, len) == IF sel < len THEN sel + 1 ELSE sel

next(sel, len) == IF sel + 1 < len THEN sel + 1 ELSE sel

\* App::previous (lines 49-53).
previous(sel) == IF sel > 0 THEN sel - 1 ELSE sel

\* App::selected_log (lines 54-56): logs.get(selected).
selected_log == IF selected < Len(logs) THEN <<logs[selected + 1]>> ELSE <<>>

\* terminal.draw: the closure holds the lock while it reads (lines 187-237).
Draw ==
    /\ ui = "draw"
    /\ mutex = 0
    /\ ui' = "poll"
    /\ UNCHANGED <<lst, nconn, pc, header, clientVars, upVars, sent, bufVars, appVars>>

\* KeyCode::Up => app.lock().unwrap().previous() (line 243).
KeyUp ==
    /\ ui = "poll"
    /\ mutex = 0
    /\ selected' = previous(selected)
    /\ ui' = "draw"
    /\ UNCHANGED <<lst, nconn, pc, header, clientVars, upVars, sent, bufVars, logs, mutex>>

\* KeyCode::Down => app.lock().unwrap().next() (line 244).
KeyDown ==
    /\ ui = "poll"
    /\ mutex = 0
    /\ selected' = next(selected, Len(logs))
    /\ ui' = "draw"
    /\ UNCHANGED <<lst, nconn, pc, header, clientVars, upVars, sent, bufVars, logs, mutex>>

\* No event within 50 ms, or another key (lines 239, 245).
KeyOther ==
    /\ ui = "poll"
    /\ ui' = "draw"
    /\ UNCHANGED <<lst, nconn, pc, header, clientVars, upVars, sent, bufVars, appVars>>

\* ------------------------------------------------------------- the system

Peer(h) ==
    \/ ClientFrame(h)
    \/ ClientSend(h)
    \/ ClientClose(h)
    \/ UpstreamSend(h)
    \/ UpstreamClose(h)

Next ==
    \/ Accept
    \/ AcceptFail
    \/ \E h \in Conns : Cancel(h)
    \/ \E h \in Conns : Handler(h)
    \/ \E h \in Conns : Peer(h)
    \/ Draw
    \/ KeyUp
    \/ KeyDown
    \/ KeyOther

Spec == Init /\ [][Next]_vars

\* A handler task that can run does run: the runtime polls a task whose I/O
\* is ready.  Nothing obliges a peer to send or to close, nor a key to be hit.
FairSpec == Init /\ [][Next]_vars /\ \A h \in Conns : WF_vars(Handler(h))

\* One connection, accepted, whose client has sent its first frame.
OneConnection(frame) ==
    /\ lst = "accepting"
    /\ nconn = 1
    /\ pc = [h \in Conns |-> IF h = 1 THEN "read" ELSE "idle"]
    /\ header = [h \in Conns |-> <<>>]
    /\ client = [h \in Conns |-> IF h = 1 THEN "open" ELSE "none"]
    /\ clientIn = [h \in Conns |-> IF h = 1 THEN frame ELSE <<>>]
    /\ clientOut = [h \in Conns |-> <<>>]
    /\ framed = [h \in Conns |-> h = 1]
    /\ up = [h \in Conns |-> "none"]
    /\ upAddr = [h \in Conns |-> NoAddr]
    /\ upIn = [h \in Conns |-> <<>>]
    /\ upOut = [h \in Conns |-> <<>>]
    /\ sent = 0
    /\ cbuf = [h \in Conns |-> <<>>]
    /\ ubuf = [h \in Conns |-> <<>>]
    /\ respBuf = [h \in Conns |-> <<>>]
    /\ logs = <<>>
    /\ selected = 0
    /\ mutex = 0
    /\ ui = "draw"

\* The handler of one plain-HTTP connection, from its first read on, with
\* its two peers: target resolution and the forward strategy (lines 72-84,
\* 129-157) on every first frame of RequestFrames.
ForwardInit == \E frame \in RequestFrames : OneConnection(frame)

ForwardNext ==
    \/ H_Read(1)
    \/ H_ForwardConnect(1)
    \/ H_ForwardWrite(1)
    \/ H_ForwardRead(1)
    \/ H_Lock(1)
    \/ H_Push(1)
    \/ H_ForwardRelay(1)
    \/ ClientClose(1)
    \/ UpstreamSend(1)
    \/ UpstreamClose(1)

ForwardSpec == ForwardInit /\ [][ForwardNext]_vars

\* The handler of one CONNECT connection, from its first read on, with its
\* two peers sending up to TunnelChunks chunks: the relay loop (lines 86-125)
\* through several iterations.
TunnelInit == \E frame \in {F_Connect, F_ConnectLower} : OneConnection(frame)

TunnelNext ==
    \/ H_Read(1)
    \/ H_Ack(1)
    \/ H_Lock(1)
    \/ H_Push(1)
    \/ H_Connect(1)
    \/ H_TunnelReadClient(1)
    \/ H_TunnelWriteUp(1)
    \/ H_TunnelReadUp(1)
    \/ H_TunnelWriteClient(1)
    \/ ClientSendWithin(1, TunnelChunks)
    \/ ClientClose(1)
    \/ UpstreamSendWithin(1, TunnelChunks)
    \/ UpstreamClose(1)

TunnelSpec == TunnelInit /\ [][TunnelNext]_vars

\* ------------------------------------------------------------- properties

\* The records connection h pushed, in log order.
Recs(h) == SelectSeq(logs, LAMBDA r : r.conn = h)

\* The first frame of connection h asks for a tunnel: its method is CONNECT
\* in some letter case.
AsksConnect(h) == Method(header[h]) \in {<<"CONNECT">>, <<"connect">>, <<"Connect">>}

\* The first frame of connection h was read and asks for anything else.
AsksForward(h) == header[h] # <<>> /\ ~AsksConnect(h)

\* The upstream connect of connection h succeeded.
Connected(h) == up[h] \in {"open", "closed"}

\* Handler h is in the relay loop of lines 102-124.
InTunnel(h) == pc[h] \in {"t_read_c", "t_write_u", "t_read_u", "t_write_c", "t_log"}

\* s with every "\r" that stands right before a "\n" left out.
WithoutCRBeforeLF(s) ==
    LET keep == {i \in 1..Len(s) : ~(s[i] = CR /\ i < Len(s) /\ s[i + 1] = LF)}
        nth[k \in 1..Cardinality(keep)] ==
            CHOOSE i \in keep : Cardinality({j \in keep : j < i}) = k - 1
    IN  [k \in 1..Cardinality(keep) |-> s[nth[k]]]

\* C1: when every accepted connection is a forward that connected upstream and
\* whose handler has finished (each one lock, push_back, unlock), the log holds
\* exactly as many records as there are handlers and exactly one of each, in
\* whatever order the handlers and the terminal loop interleaved.
C1_AppendsNeitherLostNorDuplicated ==
    (nconn >= 1 /\ \A h \in 1..nconn : pc[h] = "done" /\ AsksForward(h) /\ Connected(h))
    => /\ Len(logs) = nconn
       /\ \A h \in 1..nconn : Len(Recs(h)) = 1

\* Two handlers have appended, the second connection before the first, while
\* the terminal loop moved the cursor.
C1_Witness ==
    /\ nconn = 2
    /\ \A h \in 1..nconn : pc[h] = "done" /\ AsksForward(h) /\ Connected(h)
    /\ Len(logs) = 2
    /\ logs[1].conn = 2
    /\ selected = 1

\* C2: the log is append-only: no step of a handler, of a peer or of the
\* terminal loop shortens the log or changes the record at an index.
C2_AppendOnly ==
    [][/\ Len(logs') >= Len(logs)
       /\ \A i \in 1..Len(logs) : logs'[i] = logs[i]]_vars

\* The log holds records of a tunnel and of a forward, and the cursor has moved.
C2_Witness ==
    /\ Len(logs) >= 3
    /\ \E i, j \in 1..Len(logs) : logs[i].conn # logs[j].conn
    /\ selected >= 1
    /\ ui = "draw"

\* C3: a CONNECT whose upstream connect fails appends no record.
C3_NoRecordWhenTunnelConnectFails ==
    \A h \in Conns : (AsksConnect(h) /\ up[h] = "failed") => Recs(h) = <<>>

\* C4: the acknowledgement of a CONNECT is written only after the upstream
\* connect has succeeded, and nothing is written when it fails.
C4_AckOnlyAfterUpstreamConnect ==
    \A h \in Conns :
        AsksConnect(h) =>
            /\ clientOut[h] # <<>> => Connected(h)
            /\ up[h] = "failed" => clientOut[h] = <<>>

\* C5: for a CONNECT with target T, in any letter case, whose upstream connect
\* succeeded, what the client received starts with the acknowledgement (a
\* client that is still there has received it), and the log holds a record of
\* that connection whose label contains "CONNECT T".
C5_ConnectAckAndRecord ==
    \A h \in Conns :
        (AsksConnect(h) /\ Connected(h)) =>
            /\ (client[h] = "open" \/ clientOut[h] # <<>>) => StartsWith(clientOut[h], Ack)
            /\ \E i \in 1..Len(logs) :
                   /\ logs[i].conn = h
                   /\ Contains(logs[i].url, <<"CONNECT", SP>> \o Target(header[h]))

\* A lower-case "connect h1:443" has connected upstream and its client holds
\* exactly the acknowledgement.
C5_Witness ==
    \E h \in Conns :
        /\ Method(header[h]) = <<"connect">>
        /\ Target(header[h]) = <<"h1", COLON, "443">>
        /\ up[h] = "open"
        /\ clientOut[h] = Ack

\* C6: in an established tunnel, once the client or the upstream has closed
\* or failed, the handler eventually leaves the relay loop.
C6_FirstCloseEndsTunnel ==
    \A h \in Conns :
        (InTunnel(h) /\ (client[h] = "closed" \/ up[h] = "closed")) ~> ~InTunnel(h)

\* C7: in an established tunnel with both ends open, a chunk the upstream has
\* sent eventually reaches the client and a chunk the client has sent
\* eventually reaches the upstream, unless an end closes or the tunnel ends.
C7_BothDirectionsProgress ==
    \A h \in Conns :
        /\ (InTunnel(h) /\ upIn[h] # <<>>)
               ~> \/ upIn[h] = <<>> /\ pc[h] # "t_write_c"
                  \/ ~InTunnel(h) \/ client[h] = "closed" \/ up[h] = "closed"
        /\ (InTunnel(h) /\ clientIn[h] # <<>>)
               ~> \/ clientIn[h] = <<>> /\ pc[h] # "t_write_u"
                  \/ ~InTunnel(h) \/ client[h] = "closed" \/ up[h] = "closed"

\* The label, request text and response text of the record of a forward.
ExpectedForwardRecord(h) ==
    [url |-> Method(header[h]) \o <<SP>> \o Path(header[h]) \o <<SP, "[Host", COLON, SP>>
             \o Host(header[h]) \o <<"]">>,
     request |-> Method(header[h]) \o <<SP>> \o Path(header[h])
                 \o <<SP, "HTTP/1.1", CR, LF, "Host", COLON, SP>> \o Host(header[h])
                 \o <<CR, LF, "Connection", COLON, SP, "close", CR, LF, CR, LF>>,
     response |-> WithoutCRBeforeLF(FromUtf8Lossy(respBuf[h])),
     conn |-> h]

C9_NothingWhenForwardConnectFails ==
    \A h \in Conns :
        (AsksForward(h) /\ up[h] = "failed") => Recs(h) = <<>> /\ clientOut[h] = <<>>

\* A forward whose connect failed has finished, its client still there.
C9_Witness ==
    \E h \in Conns : AsksForward(h) /\ up[h] = "failed" /\ pc[h] = "done" /\ Len(logs) >= 1

\* C10: when the first read returns nothing (the client is gone before any
\* byte), the handler ends at that step: the step changes neither the log nor
\* the listener, and the connection has then no record, no upstream
\* connection and nothing written to the client or upstream.
C10_EmptyFirstReadEndsHandler ==
    [][\A h \in Conns :
        /\ (pc[h] = "read" /\ pc'[h] # "read" /\ clientIn[h] = <<>>) =>
            /\ pc'[h] \in {"done", "cancelled"}
            /\ logs' = logs /\ lst' = lst /\ nconn' = nconn
        /\ (header[h] = <<>> /\ pc[h] \notin {"idle", "read"})' =>
            /\ pc'[h] \in {"done", "cancelled"}
            /\ Recs(h)' = <<>>
            /\ up'[h] = "none" /\ upAddr'[h] = NoAddr
            /\ clientOut'[h] = <<>> /\ upOut'[h] = <<>>]_vars

\* A client came and went without a byte, its handler finished, while the
\* listener accepts and another connection has logged.
C10_Witness ==
    \E h \in Conns :
        /\ pc[h] = "done" /\ header[h] = <<>> /\ ~framed[h]
        /\ lst = "accepting"
        /\ Len(logs) >= 1

\* C11: from a valid index (selected < Len(logs)), a move up yields an index
\* that is not below 0, one less than before or, at 0, the same; a move down
\* yields an index below the length of the log, one more than before or, at
\* the last index, the same; neither wraps around and neither changes the log.
C11_NavigationClamped ==
    [][/\ (KeyUp /\ selected < Len(logs)) =>
            /\ selected' >= 0
            /\ selected' = (IF selected = 0 THEN 0 ELSE selected - 1)
            /\ logs' = logs
       /\ (KeyDown /\ selected < Len(logs)) =>
            /\ selected' < Len(logs)
            /\ selected' = (IF selected = Len(logs) - 1 THEN selected ELSE selected + 1)
            /\ logs' = logs]_vars

\* The cursor has been moved down to the last of three records, and a further
\* key has been handled there.
C11_Witness ==
    /\ Len(logs) = 3
    /\ selected = 2
    /\ ui = "draw"
    /\ mutex = 0

\* C12: whenever the log is not empty the cursor is an index into it, and a
\* step that appends to the log leaves the cursor where it was.
C12_CursorNeverInvalidated ==
    /\ [](Len(logs) > 0 => (selected < Len(logs) /\ selected_log # <<>>))
    /\ [][logs' # logs => selected' = selected]_vars

\* The cursor stands on the second record while a handler holds the lock to
\* append a third.
C12_Witness ==
    /\ Len(logs) = 2
    /\ selected = 1
    /\ mutex # 0
    /\ ui = "poll"

\* The request-target of connection h is an absolute URI "http://H[:P]/path".
HasAbsoluteUri(h) == Target(header[h]) \in {AbsTargetPort, AbsTargetNoPort}

\* The host, port and path an absolute URI names.
AbsoluteUri(target) ==
    [host |-> <<"h1">>,
     port |-> IF target = AbsTargetPort THEN 8080 ELSE 80,
     path |-> <<"/x">>]

\* C13: for a forward request whose target is "http://H:P/path", the handler
\* connects upstream to host H and port P (80 when the URI has no port), the
\* request it sends starts with "<method> /path HTTP/1.1", and the record's
\* label is "<method> /path [Host: H]".
C13_AbsoluteUriResolved ==
    \A h \in Conns :
        (AsksForward(h) /\ HasAbsoluteUri(h)) =>
            LET uri == AbsoluteUri(Target(header[h])) IN
            /\ up[h] # "none" => upAddr[h] = [host |-> uri.host, port |-> uri.port]
            /\ upOut[h] # <<>> =>
                   StartsWith(upOut[h], Method(header[h]) \o <<SP>> \o uri.path
                                        \o <<SP, "HTTP/1.1", CR, LF>>)
            /\ \A i \in 1..Len(Recs(h)) :
                   Recs(h)[i].url = Method(header[h]) \o <<SP>> \o uri.path
                                    \o <<SP, "[Host", COLON, SP>> \o uri.host \o <<"]">>

\* The lines after the request line whose name, the text before the first
\* ":", is "Host" in some letter case.
HostHeaders(h) ==
    LET ls == Lines(header[h])
    IN  SelectSeq([i \in 1..(Len(ls) - 1) |-> ls[i + 1]],
                  LAMBDA l : Len(l) >= 2 /\ l[1] \in {"Host", "HOST", "host"} /\ l[2] = COLON)

\* The value of a header line: what follows the ":", less the space after it.
HeaderValue(l) ==
    LET v == SubSeq(l, 3, Len(l))
    IN  IF v # <<>> /\ v[1] = SP THEN Tail(v) ELSE v

\* The host and port a Host header value "H" or "H:P" names.
HostAndPort(value) ==
    LET hp == Split(value, COLON)
    IN  [host |-> hp[1],
         port |-> IF Len(hp) >= 2 /\ ParsesAsPort(hp[2]) THEN PortValue[hp[2][1]] ELSE 80]

\* C14: for a forward request with an origin-form target that carries a Host
\* header, the handler connects upstream to the host and port of the first
\* Host header's value ("H:P" gives H and P, "H" gives H and 80), and the
\* request it sends carries the original request-target as its path.
C14_HostHeaderResolved ==
    \A h \in Conns :
        (AsksForward(h) /\ ~HasAbsoluteUri(h) /\ Target(header[h]) # <<>>
            /\ HostHeaders(h) # <<>>) =>
            LET hp == HostAndPort(HeaderValue(HostHeaders(h)[1])) IN
            /\ up[h] # "none" => upAddr[h] = [host |-> hp.host, port |-> hp.port]
            /\ upOut[h] # <<>> =>
                   StartsWith(upOut[h], Method(header[h]) \o <<SP>> \o Target(header[h])
                                        \o <<SP, "HTTP/1.1", CR, LF>>)

\* C15: for a forward request with an origin-form target and no Host header,
\* the handler connects upstream to 127.0.0.1, port 80, and the request it
\* sends carries the original request-target as its path and 127.0.0.1 as host.
C15_DefaultsWithoutHost ==
    \A h \in Conns :
        (AsksForward(h) /\ ~HasAbsoluteUri(h) /\ Target(header[h]) # <<>>
            /\ HostHeaders(h) = <<>>) =>
            /\ pc[h] \notin {"read", "f_connect"} =>
                   /\ up[h] # "none"
                   /\ upAddr[h] = [host |-> <<"127.0.0.1">>, port |-> 80]
            /\ upOut[h] # <<>> =>
                   StartsWith(upOut[h], Method(header[h]) \o <<SP>> \o Target(header[h])
                                        \o <<SP, "HTTP/1.1", CR, LF, "Host", COLON, SP,
                                             "127.0.0.1", CR, LF>>)
            /\ \A i \in 1..Len(Recs(h)) :
                   Recs(h)[i].url = Method(header[h]) \o <<SP>> \o Target(header[h])
                                    \o <<SP, "[Host", COLON, SP, "127.0.0.1", "]">>

\* A request with another header but no Host header has been sent on to
\* 127.0.0.1:80 and logged.
C15_Witness ==
    \E h \in Conns :
        /\ header[h] = F_NoHostOtherHeader
        /\ upAddr[h] = [host |-> <<"127.0.0.1">>, port |-> 80]
        /\ upOut[h] # <<>>
        /\ Recs(h) # <<>>

\* The number of entries of a sequence of lines that satisfy Test.
CountLines(ls, Test(_)) == Len(SelectSeq(ls, Test))

\* C16: whatever headers and body the client's request had, what a forward
\* sends upstream is nothing (the upstream was gone) or exactly
\* "<method> <path> HTTP/1.1\r\nHost: <host>\r\nConnection: close\r\n\r\n",
\* and it is sent whenever the upstream is there: it ends with "\r\n\r\n",
\* is a request line, two header lines and the empty line, and has exactly
\* one Host header and exactly one "Connection: close" header.
C16_ReconstructedRequest ==
    \A h \in Conns :
        AsksForward(h) =>
            /\ (pc[h] \in {"f_read", "f_log", "f_relay", "done"} /\ up[h] = "open")
                   => upOut[h] # <<>>
            /\ upOut[h] # <<>> =>
                LET ls == Lines(upOut[h]) IN
                /\ upOut[h] = Method(header[h]) \o <<SP>> \o Path(header[h])
                              \o <<SP, "HTTP/1.1", CR, LF, "Host", COLON, SP>>
                              \o Host(header[h])
                              \o <<CR, LF, "Connection", COLON, SP, "close", CR, LF, CR, LF>>
                /\ SubSeq(upOut[h], Len(upOut[h]) - 3, Len(upOut[h])) = <<CR, LF, CR, LF>>
                /\ Len(ls) = 4 /\ ls[4] = <<>>
                /\ CountLines(Tail(ls), LAMBDA l : Len(l) >= 2 /\ LowerSym(l[1]) = "host"
                                                   /\ l[2] = COLON) = 1
                /\ CountLines(Tail(ls), LAMBDA l : Len(l) >= 1 /\ l[1] = "Connection") = 1
                /\ CountLines(Tail(ls), LAMBDA l : l = <<"Connection", COLON, SP, "close">>) = 1

\* A request with two Host headers, a Connection: keep-alive header, another
\* header and a body has been sent on upstream.
C16_Witness ==
    \E h \in Conns :
        /\ header[h] = F_TwoHosts
        /\ up[h] = "open"
        /\ upOut[h] # <<>>

\* The tokens of the first line of connection h's first frame.
RequestLineTokens(h) == SplitWhitespace(FirstLine(header[h]))

\* The first line of the frame is absent or lacks its method or its target.
MalformedRequestLine(h) == header[h] # <<>> /\ Len(RequestLineTokens(h)) < 2

\* C17: when the first line of the frame lacks the method, the target or
\* both, the handler takes the forward strategy with the method defaulted to
\* "GET" and the target to "/": it attempts the upstream connect, the request
\* it sends starts with "<method> / HTTP/1.1", the record's label starts with
\* "<method> / ", where <method> is the line's own method or else "GET".
C17_MalformedLineDefaults ==
    \A h \in Conns :
        MalformedRequestLine(h) =>
            LET method == IF RequestLineTokens(h) = <<>> THEN <<"GET">>
                          ELSE RequestLineTokens(h)[1]
            IN  /\ pc[h] \in {"f_connect", "f_write", "f_read", "f_log", "f_relay", "done",
                              "cancelled"}
                /\ pc[h] = "done" => up[h] # "none"
                /\ upOut[h] # <<>> =>
                       StartsWith(upOut[h], method \o <<SP, "/", SP, "HTTP/1.1", CR, LF>>)
                /\ \A i \in 1..Len(Recs(h)) :
                       StartsWith(Recs(h)[i].url, method \o <<SP, "/", SP>>)

\* C18: a handler whose write failed appends no record: a CONNECT whose
\* acknowledgement did not reach the client (the client was gone when it was
\* written) has no record in the log, and a forward whose reconstructed
\* request did not reach the upstream (the upstream was gone when it was
\* written) has none either.
C18_FailedWriteLogsNothing ==
    \A h \in Conns :
        /\ (AsksConnect(h) /\ pc[h] \notin {"read", "ack"} /\ ~StartsWith(clientOut[h], Ack))
               => Recs(h) = <<>>
        /\ (AsksForward(h) /\ Connected(h) /\ upOut[h] = <<>>
                /\ pc[h] \in {"f_read", "f_log", "f_relay", "done"})
               => Recs(h) = <<>>

\* C19: the accept loop runs on whatever fails: after a failed accept call
\* the listener is still accepting, and no handler task is dropped.
C19_AcceptLoopSurvives ==
    /\ lst = "accepting"
    /\ \A h \in Conns : pc[h] # "cancelled"

\* The texts of a sequence of texts, one after the other.
RECURSIVE Flatten(_)
Flatten(ts) == IF ts = <<>> THEN <<>> ELSE Head(ts) \o Flatten(Tail(ts))

\* The "Tunnel" records of connection h: its records after the first.
TunnelRecs(h) == IF Recs(h) = <<>> THEN <<>> ELSE Tail(Recs(h))

\* The client chunk handler h has written upstream and not logged (yet).
Unlogged(h) ==
    IF pc[h] \in {"t_read_u", "t_write_c", "t_log"} THEN FromUtf8Lossy(cbuf[h]) ELSE <<>>

\* C20: the records of a CONNECT connection with target T are, in log order,
\* the one "CONNECT T" record, pushed before the upstream connect, and then
\* "Tunnel T" records, each pairing a client chunk with the upstream chunk
\* that answered it: while the client is there, what it received after the
\* acknowledgement is exactly the logged responses in order (one record per
\* upstream chunk relayed); while the upstream is there, what it received is
\* exactly the logged requests in order followed by the chunk that has no
\* answer yet, which is in no record.
C20_TunnelRecordsPairChunks ==
    \A h \in Conns :
        AsksConnect(h) =>
            /\ Recs(h) = <<>> <=> pc[h] \in {"read", "ack", "log_connect"}
            /\ Recs(h) # <<>> =>
                   Recs(h)[1] = [url |-> <<"CONNECT", SP>> \o Target(header[h]),
                                 request |-> FirstLine(header[h]),
                                 response |-> <<"[Tunnel", SP, "established]">>,
                                 conn |-> h]
            /\ \A i \in 1..Len(TunnelRecs(h)) :
                   /\ TunnelRecs(h)[i].url = <<"Tunnel", SP>> \o Target(header[h])
                   /\ TunnelRecs(h)[i].request # <<>>
                   /\ TunnelRecs(h)[i].response # <<>>
            /\ (client[h] = "open" /\ pc[h] \notin {"read", "ack", "t_log"}) =>
                   FromUtf8Lossy(clientOut[h]) =
                       Ack \o Flatten([i \in 1..Len(TunnelRecs(h)) |-> TunnelRecs(h)[i].response])
            /\ (up[h] = "open" /\ pc[h] # "cancelled") =>
                   FromUtf8Lossy(upOut[h]) =
                       Flatten([i \in 1..Len(TunnelRecs(h)) |-> TunnelRecs(h)[i].request])
                       \o Unlogged(h)

\* Two iterations of the relay loop have completed, with different client
\* chunks, both peers still there.
C20_Witness ==
    \E h \in Conns :
        /\ Len(Recs(h)) = 3
        /\ Recs(h)[2].request # Recs(h)[3].request
        /\ client[h] = "open" /\ up[h] = "open"
        /\ pc[h] = "t_read_c"

====
